---- MODULE Spec2Model ----
(***************************************************************************)
(* Model of the MCP tool-calling programs of the repository:               *)
(*   mcp_simple_chatbot/main.py  (MCPServer, ChatSession, main)            *)
(*   langgraph_flow/main.py      (input -> plan -> call graph, main)       *)
(*   mcp_server/server.py, server.py  (the workers' call_tool)             *)
(* The variable app says which program a behaviour runs: "chat", "flow",   *)
(* "worker", or "api", a harness that calls the methods of MCPServer       *)
(* objects in any order.                                                   *)
(***************************************************************************)
EXTENDS Integers, Sequences, FiniteSets, TLC

VARIABLES
    app,          \* which program runs
    servers,      \* per server: the MCPServer object, its worker and session
    declared,     \* per server: the tool names its worker declares
    last,         \* the last MCPServer / executor method call and its outcome
    listResults,  \* per server: the values list_tools has returned, in order
    ops,          \* api harness: number of method calls made
    pc,           \* position of the application (chat, flow) or of the worker
    idx,          \* loop index over self.servers
    turns,        \* number of operator inputs read
    llm_response, \* the text the language model returned this turn
    tool_name,    \* ChatSession.start local
    arguments,    \* ChatSession.start local
    state,        \* FlowState threaded through the graph
    shown,        \* what the turn finally printed for the operator
    callWire,     \* how the call-tool round trip of this turn ended
    turnList,     \* per server: list-tools round trips made in this turn
    turnCall,     \* per server: call-tool round trips made in this turn
    wreq,         \* worker: the call_tool request
    wres          \* worker: what call_tool did with it

vars == <<app, servers, declared, last, listResults, ops, pc, idx, turns,
          llm_response, tool_name, arguments, state, shown, callWire,
          turnList, turnCall, wreq, wres>>

appVars == <<pc, idx, turns, llm_response, tool_name, arguments, state, shown,
             callWire, turnList, turnCall>>
workerVars == <<wreq, wres>>

(***************************************************************************)
(* Bounds                                                                  *)
(***************************************************************************)
NumServers == 2
MaxOps == 4
MaxTurns == 2
MaxLen == 3
MaxNum == 2

Servers == 1..NumServers

(***************************************************************************)
(* Tools the workers declare                                               *)
(***************************************************************************)
CalcTools == <<"add", "subtract", "multiply", "divide", "evaluate_expression">>
MathFlowTools == <<"add", "subtract", "multiply", "divide", "evaluate_expression">>
\* a configured server may be any MCP worker: one that declares other tools
OtherTools == <<"echo">>
ToolLists == {CalcTools, MathFlowTools, OtherTools}

Range(f) == {f[i] : i \in DOMAIN f}

(***************************************************************************)
(* MCPServer                                                               *)
(***************************************************************************)
NewServer ==
    [session |-> "None", exit_stack |-> "None", proc |-> "none",
     sstate |-> "Unopened", handshook |-> FALSE, cache |-> "None"]

InitOutcomes == {"ok", "spawn_fail", "session_fail", "handshake_fail"}
\* how a round trip ends: the worker answers, the worker answers reporting an
\* application-level failure as text, or the channel / protocol fails
Wire == {"ok", "app_error", "fail"}

\* The response of the worker to tools/list, as the (field, value) pairs
\* that iterating the response object yields.
ListToolsResponse(tools) ==
    << <<"meta", <<>> >>, <<"nextCursor", <<>> >>, <<"tools", tools>> >>

\* session.list_tools() / session.call_tool() of the client library: a round
\* trip to the worker when the session is Ready and the channel delivers.
SessionRequest(st, wire) ==
    IF st.sstate = "Ready" /\ st.proc = "running" /\ wire # "fail"
    THEN [trip |-> TRUE, raised |-> "none"]
    ELSE [trip |-> (st.sstate = "Ready" /\ st.proc = "running"),
          raised |-> "ChannelError"]

MCPServer_initialize_session_first(st, outcome) ==
    LET opened == [st EXCEPT !.exit_stack = "open"] IN
    CASE outcome = "spawn_fail" ->
           [st |-> opened, raised |-> "SpawnError"]
      [] outcome = "session_fail" ->
           [st |-> [opened EXCEPT !.proc = "running"], raised |-> "SessionError"]
      [] outcome = "handshake_fail" ->
           [st |-> [opened EXCEPT !.proc = "running", !.sstate = "Handshaking",
                                  !.session = "set"],
            raised |-> "HandshakeError"]
      [] OTHER ->
           [st |-> [opened EXCEPT !.proc = "running", !.sstate = "Ready",
                                  !.session = "set", !.handshook = TRUE],
            raised |-> "none"]

MCPServer_initialize(st, outcome) ==
    LET opened == [st EXCEPT !.exit_stack = "open"] IN
    CASE outcome = "spawn_fail" ->
           \* stdio_client cannot start the command: nothing was spawned
           [st |-> opened, raised |-> "SpawnError"]
      [] outcome = "session_fail" ->
           \* entering ClientSession raises; the except clause logs and re-raises
           [st |-> [opened EXCEPT !.proc = "running"], raised |-> "SessionError"]
      [] outcome = "handshake_fail" ->
           \* session.initialize() raises; self.session is never assigned
           [st |-> [opened EXCEPT !.proc = "running", !.sstate = "Handshaking"],
            raised |-> "HandshakeError"]
      [] OTHER ->
           [st |-> [opened EXCEPT !.proc = "running", !.sstate = "Ready",
                                  !.session = "set", !.handshook = TRUE],
            raised |-> "none"]

\* tools.extend(...) over the items of the response that are ("tools", list)
RECURSIVE ExtractTools(_)
ExtractTools(items) ==
    IF items = <<>> THEN <<>>
    ELSE LET item == Head(items) IN
         (IF item[1] = "tools" THEN item[2] ELSE <<>>) \o ExtractTools(Tail(items))

MCPServer_list_tools_cached(st, tools, wire) ==
    IF st.session = "None"
    THEN [st |-> st, raised |-> "AssertionError", forwarded |-> FALSE,
          trip |-> FALSE, value |-> <<>>]
    ELSE IF st.cache # "None"
    THEN [st |-> st, raised |-> "none", forwarded |-> FALSE, trip |-> FALSE,
          value |-> tools]
    ELSE LET r == SessionRequest(st, wire) IN
         [st |-> IF r.raised = "none" THEN [st EXCEPT !.cache = "set"] ELSE st,
          raised |-> r.raised, forwarded |-> TRUE, trip |-> r.trip,
          value |-> IF r.raised = "none"
                    THEN ExtractTools(ListToolsResponse(tools)) ELSE <<>>]

MCPServer_list_tools(st, tools, wire) ==
    IF st.session = "None"
    THEN [st |-> st, raised |-> "AssertionError", forwarded |-> FALSE,
          trip |-> FALSE, value |-> <<>>]
    ELSE LET r == SessionRequest(st, wire) IN
         [st |-> st, raised |-> r.raised, forwarded |-> TRUE, trip |-> r.trip,
          value |-> IF r.raised = "none"
                    THEN ExtractTools(ListToolsResponse(tools)) ELSE <<>>]

MCPServer_execute_tool(st, wire) ==
    IF st.session = "None"
    THEN [st |-> st, raised |-> "AssertionError", forwarded |-> FALSE,
          trip |-> FALSE]
    ELSE LET r == SessionRequest(st, wire) IN
         [st |-> st, raised |-> r.raised, forwarded |-> TRUE, trip |-> r.trip]

MCPServer_cleanup(st) ==
    IF st.exit_stack = "None" THEN st
    ELSE [st EXCEPT !.exit_stack = "closed",
                    !.proc = IF st.proc = "running" THEN "terminated" ELSE st.proc,
                    !.sstate = IF st.sstate = "Unopened" THEN "Unopened" ELSE "Closed"]

NoCall == [op |-> "none", srv |-> 0, at |-> "Unopened", session |-> "None",
           raised |-> "none", forwarded |-> FALSE, trip |-> FALSE]

Called(op, s, before, r) ==
    [op |-> op, srv |-> s, at |-> before.sstate, session |-> before.session,
     raised |-> r.raised, forwarded |-> r.forwarded, trip |-> r.trip]

(***************************************************************************)
(* The api harness: the methods of MCPServer objects called in any order   *)
(* (initialize at most once per object, as both applications do).          *)
(***************************************************************************)
Api_initialize(s) ==
    /\ app = "api" /\ ops < MaxOps
    /\ servers[s].exit_stack = "None"
    /\ \E outcome \in InitOutcomes :
         LET r == MCPServer_initialize(servers[s], outcome) IN
         /\ servers' = [servers EXCEPT ![s] = r.st]
         /\ last' = Called("initialize", s, servers[s],
                           [raised |-> r.raised, forwarded |-> FALSE, trip |-> FALSE])
    /\ ops' = ops + 1
    /\ UNCHANGED <<app, declared, listResults, appVars, workerVars>>

Api_list_tools(s) ==
    /\ app = "api" /\ ops < MaxOps
    /\ \E wire \in Wire :
         LET r == MCPServer_list_tools(servers[s], declared[s], wire) IN
         /\ servers' = [servers EXCEPT ![s] = r.st]
         /\ last' = Called("list_tools", s, servers[s], r)
         /\ listResults' = IF r.raised = "none"
                           THEN [listResults EXCEPT ![s] = Append(@, r.value)]
                           ELSE listResults
         /\ turnList' = [turnList EXCEPT ![s] = @ + (IF r.trip THEN 1 ELSE 0)]
    /\ ops' = ops + 1
    /\ UNCHANGED <<app, declared, pc, idx, turns, llm_response, tool_name,
                   arguments, state, shown, callWire, turnCall, workerVars>>

Api_execute_tool(s) ==
    /\ app = "api" /\ ops < MaxOps
    /\ \E wire \in Wire :
         LET r == MCPServer_execute_tool(servers[s], wire) IN
         /\ servers' = [servers EXCEPT ![s] = r.st]
         /\ last' = Called("execute_tool", s, servers[s], r)
         /\ turnCall' = [turnCall EXCEPT ![s] = @ + (IF r.trip THEN 1 ELSE 0)]
    /\ ops' = ops + 1
    /\ UNCHANGED <<app, declared, listResults, pc, idx, turns, llm_response,
                   tool_name, arguments, state, shown, callWire, turnList,
                   workerVars>>

Api_cleanup(s) ==
    /\ app = "api" /\ ops < MaxOps
    /\ servers' = [servers EXCEPT ![s] = MCPServer_cleanup(servers[s])]
    /\ last' = Called("cleanup", s, servers[s],
                      [raised |-> "none", forwarded |-> FALSE, trip |-> FALSE])
    /\ ops' = ops + 1
    /\ UNCHANGED <<app, declared, listResults, appVars, workerVars>>

(***************************************************************************)
(* The text of the language model and its decoding                         *)
(***************************************************************************)
Keys == {"tool", "tool_name", "arguments"}
Names == {"divide", "echo", "sqrt"}
EmptyArgs == "{}"
SomeArgs == "{numbers}"

\* body kinds: prose (no JSON), truncated (begins with "{", does not decode),
\* scalar (decodes, not to an object), object (decodes to an object with keys)
Bodies ==
    {[kind |-> k, keys |-> {}, name |-> "", args |-> EmptyArgs] :
        k \in {"prose", "truncated", "scalar"}}
    \cup [kind : {"object"}, keys : SUBSET Keys, name : Names, args : {SomeArgs}]

\* fence: none, ```json\n...```, ```\n...```, or another label (```js\n...```)
Fences == {"none", "json", "plain", "other"}
Texts == [fence : Fences, body : Bodies]
NoText == [fence |-> "none",
           body |-> [kind |-> "absent", keys |-> {}, name |-> "", args |-> EmptyArgs]]

StartsWithBrace(text) ==
    text.fence = "none" /\ text.body.kind \in {"truncated", "object"}

\* re.sub(r"```(?:json)?\n([\s\S]*?)```", r"\1", content).strip()
StripFence(text) ==
    IF text.fence \in {"json", "plain"} THEN [text EXCEPT !.fence = "none"] ELSE text

\* json.loads: the decoded value, or the error it raises
JsonLoads(text) ==
    IF text.fence # "none" \/ text.body.kind \in {"prose", "truncated", "absent"}
    THEN [raised |-> "JSONDecodeError", value |-> NoText.body]
    ELSE [raised |-> "none", value |-> text.body]

\* parsed[key]
Subscript(value, key) ==
    IF value.kind # "object" THEN "TypeError"
    ELSE IF key \notin value.keys THEN "KeyError" ELSE "none"

Output(kind, reason, raw, tool) ==
    [kind |-> kind, reason |-> reason, raw |-> raw, tool |-> tool]
NoOutput == Output("empty", "none", NoText, "")

ZeroTrips == [s \in Servers |-> 0]

(***************************************************************************)
(* mcp_simple_chatbot: ChatSession.start and main                          *)
(***************************************************************************)
Chat_initialize ==
    /\ app = "chat" /\ pc = "initialize"
    /\ \E outcome \in InitOutcomes :
         LET r == MCPServer_initialize(servers[idx], outcome) IN
         /\ servers' = [servers EXCEPT ![idx] = r.st]
         /\ last' = Called("initialize", idx, servers[idx],
                           [raised |-> r.raised, forwarded |-> FALSE, trip |-> FALSE])
         /\ IF r.raised # "none"
            THEN pc' = "crashed" /\ idx' = idx
            ELSE IF idx < NumServers
            THEN pc' = pc /\ idx' = idx + 1
            ELSE pc' = "list_all" /\ idx' = 1
    /\ UNCHANGED <<app, declared, listResults, ops, turns, llm_response,
                   tool_name, arguments, state, shown, callWire, turnList,
                   turnCall, workerVars>>

Chat_list_all ==
    /\ app = "chat" /\ pc = "list_all"
    /\ \E wire \in Wire :
         LET r == MCPServer_list_tools(servers[idx], declared[idx], wire) IN
         /\ servers' = [servers EXCEPT ![idx] = r.st]
         /\ last' = Called("list_tools", idx, servers[idx], r)
         /\ listResults' = IF r.raised = "none"
                           THEN [listResults EXCEPT ![idx] = Append(@, r.value)]
                           ELSE listResults
         /\ IF r.raised # "none"
            THEN pc' = "crashed" /\ idx' = idx
            ELSE IF idx < NumServers
            THEN pc' = pc /\ idx' = idx + 1
            ELSE pc' = "input" /\ idx' = 1
    /\ UNCHANGED <<app, declared, ops, turns, llm_response, tool_name,
                   arguments, state, shown, callWire, turnList, turnCall,
                   workerVars>>

\* the operator types exit or quit: start returns, main returns
Chat_exit ==
    /\ app = "chat" /\ pc = "input"
    /\ pc' = "exited"
    /\ UNCHANGED <<app, servers, declared, last, listResults, ops, idx, turns,
                   llm_response, tool_name, arguments, state, shown, callWire,
                   turnList, turnCall, workerVars>>

\* json.loads(llm_response); parsed["tool"]; parsed.get("arguments", {})
Chat_parse(text) ==
    LET d == JsonLoads(text) IN
    IF d.raised # "none"
    THEN [raised |-> d.raised, tool |-> "", args |-> EmptyArgs]
    ELSE IF Subscript(d.value, "tool") # "none"
    THEN [raised |-> Subscript(d.value, "tool"), tool |-> "", args |-> EmptyArgs]
    ELSE [raised |-> "none", tool |-> d.value.name,
          args |-> IF "arguments" \in d.value.keys THEN d.value.args ELSE EmptyArgs]

\* one input that is not exit: the model answers, the answer is printed and,
\* when it begins with "{", parsed
Chat_input ==
    /\ app = "chat" /\ pc = "input" /\ turns < MaxTurns
    /\ turns' = turns + 1
    /\ turnList' = ZeroTrips /\ turnCall' = ZeroTrips /\ callWire' = "none"
    /\ \E text \in Texts :
         /\ llm_response' = text
         /\ IF ~StartsWithBrace(text)
            THEN /\ shown' = Output("chat", "none", text, "")
                 /\ UNCHANGED <<pc, idx, tool_name, arguments>>
            ELSE LET p == Chat_parse(text) IN
                 IF p.raised # "none"
                 THEN /\ shown' = Output("parse_error", p.raised, NoText, "")
                      /\ UNCHANGED <<pc, idx, tool_name, arguments>>
                 ELSE /\ tool_name' = p.tool /\ arguments' = p.args
                      /\ pc' = "route" /\ idx' = 1
                      /\ shown' = NoOutput
    /\ UNCHANGED <<app, servers, declared, last, listResults, ops, state, workerVars>>

\* any(tool.name == tool_name for tool in tools)
Offers_any(tools, name) == TRUE
Offers(tools, name) == name \in Range(tools)

\* Chat_route without the break after execute_tool
Chat_route_no_break ==
    /\ app = "chat" /\ pc = "route"
    /\ \E wl \in Wire, wc \in Wire :
         LET l == MCPServer_list_tools(servers[idx], declared[idx], wl)
             c == MCPServer_execute_tool(l.st, wc)
             offered == l.raised = "none" /\ Offers(l.value, tool_name)
             r == IF offered THEN c ELSE l
         IN
         /\ turnList' = [turnList EXCEPT ![idx] = @ + (IF l.trip THEN 1 ELSE 0)]
         /\ listResults' = IF l.raised = "none"
                           THEN [listResults EXCEPT ![idx] = Append(@, l.value)]
                           ELSE listResults
         /\ servers' = [servers EXCEPT ![idx] = r.st]
         /\ last' = IF offered THEN Called("execute_tool", idx, l.st, c)
                    ELSE Called("list_tools", idx, servers[idx], l)
         /\ turnCall' = [turnCall EXCEPT ![idx] =
                            @ + (IF offered /\ c.trip THEN 1 ELSE 0)]
         /\ callWire' = IF offered THEN wc ELSE callWire
         /\ IF r.raised # "none"
            THEN /\ shown' = Output("parse_error", r.raised, NoText, tool_name)
                 /\ pc' = "input" /\ idx' = 1
            ELSE IF idx < NumServers
            THEN /\ pc' = pc /\ idx' = idx + 1
                 /\ shown' = IF offered
                             THEN Output("tool_output", "none", NoText, tool_name)
                             ELSE shown
            ELSE /\ pc' = "input" /\ idx' = 1
                 /\ shown' = Output("tool_not_found", "none", NoText, tool_name)
    /\ UNCHANGED <<app, declared, ops, turns, llm_response, tool_name,
                   arguments, state, workerVars>>

\* one iteration of "for server in self.servers" for the parsed directive
Chat_route ==
    /\ app = "chat" /\ pc = "route"
    /\ \E wl \in Wire, wc \in Wire :
         LET l == MCPServer_list_tools(servers[idx], declared[idx], wl)
             c == MCPServer_execute_tool(l.st, wc)
         IN
         /\ turnList' = [turnList EXCEPT ![idx] = @ + (IF l.trip THEN 1 ELSE 0)]
         /\ listResults' = IF l.raised = "none"
                           THEN [listResults EXCEPT ![idx] = Append(@, l.value)]
                           ELSE listResults
         /\ IF l.raised # "none"
            THEN \* except Exception: print("Error parsing LLM response: ...")
                 /\ servers' = [servers EXCEPT ![idx] = l.st]
                 /\ last' = Called("list_tools", idx, servers[idx], l)
                 /\ shown' = Output("parse_error", l.raised, NoText, tool_name)
                 /\ pc' = "input" /\ idx' = 1
                 /\ UNCHANGED <<turnCall, callWire>>
            ELSE IF Offers(l.value, tool_name)
            THEN /\ servers' = [servers EXCEPT ![idx] = c.st]
                 /\ last' = Called("execute_tool", idx, l.st, c)
                 /\ turnCall' = [turnCall EXCEPT ![idx] = @ + (IF c.trip THEN 1 ELSE 0)]
                 /\ callWire' = wc
                 /\ shown' = IF c.raised # "none"
                             THEN Output("parse_error", c.raised, NoText, tool_name)
                             ELSE Output("tool_output", "none", NoText, tool_name)
                 /\ pc' = "input" /\ idx' = 1
            ELSE /\ servers' = [servers EXCEPT ![idx] = l.st]
                 /\ last' = Called("list_tools", idx, servers[idx], l)
                 /\ UNCHANGED <<turnCall, callWire>>
                 /\ IF idx < NumServers
                    THEN pc' = pc /\ idx' = idx + 1 /\ shown' = shown
                    ELSE \* the for loop's else: print("Tool not found")
                         /\ pc' = "input" /\ idx' = 1
                         /\ shown' = Output("tool_not_found", "none", NoText, tool_name)
    /\ UNCHANGED <<app, declared, ops, turns, llm_response, tool_name,
                   arguments, state, workerVars>>

(***************************************************************************)
(* langgraph_flow: MCPToolExecutor (langgraph_flow/tool_executor.py)       *)
(***************************************************************************)
\* acquire through initialize; a failure after the spawn terminates the
\* spawned process before the error propagates
MCPToolExecutor_initialize(st, outcome) ==
    LET opened == [st EXCEPT !.exit_stack = "open"] IN
    CASE outcome = "spawn_fail" ->
           [st |-> [opened EXCEPT !.exit_stack = "closed"], raised |-> "SpawnError"]
      [] outcome \in {"session_fail", "handshake_fail"} ->
           [st |-> [opened EXCEPT !.exit_stack = "closed", !.proc = "terminated",
                                  !.sstate = "Closed"],
            raised |-> "HandshakeError"]
      [] OTHER ->
           [st |-> [opened EXCEPT !.proc = "running", !.sstate = "Ready",
                                  !.session = "set", !.handshook = TRUE],
            raised |-> "none"]

\* the registry: the descriptors are fetched once and then served from the cache
MCPToolExecutor_list_tools(st, tools, wire) ==
    IF st.sstate # "Ready"
    THEN [st |-> st, raised |-> "NotReady", forwarded |-> FALSE, trip |-> FALSE,
          value |-> <<>>]
    ELSE IF st.cache # "None"
    THEN [st |-> st, raised |-> "none", forwarded |-> FALSE, trip |-> FALSE,
          value |-> tools]
    ELSE LET r == SessionRequest(st, wire) IN
         [st |-> IF r.raised = "none" THEN [st EXCEPT !.cache = "set"] ELSE st,
          raised |-> r.raised, forwarded |-> TRUE, trip |-> r.trip,
          value |-> IF r.raised = "none" THEN tools ELSE <<>>]

\* callTool: RemoteError when the worker reports an application-level failure,
\* ProtocolError / ChannelClosed when the round trip fails
MCPToolExecutor_execute_tool(st, wire) ==
    IF st.sstate # "Ready"
    THEN [st |-> st, raised |-> "NotReady", forwarded |-> FALSE, trip |-> FALSE]
    ELSE LET r == SessionRequest(st, wire) IN
         [st |-> st,
          raised |-> IF r.raised # "none" THEN r.raised
                     ELSE IF wire = "app_error" THEN "RemoteError" ELSE "none",
          forwarded |-> TRUE, trip |-> r.trip]

MCPToolExecutor_cleanup(st) ==
    IF st.exit_stack = "None" THEN st
    ELSE [st EXCEPT !.exit_stack = "closed",
                    !.proc = IF st.proc = "running" THEN "terminated" ELSE st.proc,
                    !.sstate = IF st.sstate = "Unopened" THEN "Unopened" ELSE "Closed"]

(***************************************************************************)
(* langgraph_flow: the graph nodes and main                                *)
(***************************************************************************)
Executor == 1

NewFlowState ==
    [input |-> "", tool_name |-> "", arguments |-> EmptyArgs, output |-> NoOutput]

\* lines 45-63: strip the fence, decode, read both fields; on any exception
\* the output carries the reason and response.content
plan_tool_call_get_default(st, response) ==
    LET d == JsonLoads(StripFence(response)) IN
    IF d.raised # "none"
    THEN [st EXCEPT !.output = Output("parse_failure", d.raised, response, "")]
    ELSE IF Subscript(d.value, "tool_name") # "none"
    THEN [st EXCEPT !.output = Output("parse_failure",
                                      Subscript(d.value, "tool_name"), response, "")]
    ELSE [st EXCEPT !.tool_name = d.value.name,
                    !.arguments = IF "arguments" \in d.value.keys
                                  THEN d.value.args ELSE EmptyArgs]

plan_tool_call(st, response) ==
    LET d == JsonLoads(StripFence(response)) IN
    IF d.raised # "none"
    THEN [st EXCEPT !.output = Output("parse_failure", d.raised, response, "")]
    ELSE IF Subscript(d.value, "tool_name") # "none"
    THEN [st EXCEPT !.output = Output("parse_failure",
                                      Subscript(d.value, "tool_name"), response, "")]
    ELSE IF Subscript(d.value, "arguments") # "none"
    THEN [st EXCEPT !.output = Output("parse_failure",
                                      Subscript(d.value, "arguments"), response, "")]
    ELSE [st EXCEPT !.tool_name = d.value.name, !.arguments = d.value.args]

\* lines 73-86 once executor.list_tools() has returned `available`:
\* c is what executor.execute_tool would do
call_mcp_tool(st, available, c) ==
    IF st.tool_name \notin Range(available)
    THEN [st |-> [st EXCEPT !.output = Output("unknown_tool", "none", NoText, st.tool_name)],
          called |-> FALSE]
    ELSE IF c.raised # "none"
    THEN [st |-> [st EXCEPT !.output = Output("call_failed", c.raised, NoText, st.tool_name)],
          called |-> TRUE]
    ELSE [st |-> [st EXCEPT !.output = Output("tool_output", "none", NoText, st.tool_name)],
          called |-> TRUE]

\* main line 107
Flow_initialize ==
    /\ app = "flow" /\ pc = "initialize"
    /\ \E outcome \in InitOutcomes :
         LET r == MCPToolExecutor_initialize(servers[Executor], outcome) IN
         /\ servers' = [servers EXCEPT ![Executor] = r.st]
         /\ last' = Called("initialize", Executor, servers[Executor],
                           [raised |-> r.raised, forwarded |-> FALSE, trip |-> FALSE])
         /\ pc' = IF r.raised # "none" THEN "crashed" ELSE "list_all"
    /\ UNCHANGED <<app, declared, listResults, ops, idx, turns, llm_response,
                   tool_name, arguments, state, shown, callWire, turnList,
                   turnCall, workerVars>>

\* main line 108
Flow_list_all ==
    /\ app = "flow" /\ pc = "list_all"
    /\ \E wire \in Wire :
         LET r == MCPToolExecutor_list_tools(servers[Executor], declared[Executor], wire) IN
         /\ servers' = [servers EXCEPT ![Executor] = r.st]
         /\ last' = Called("list_tools", Executor, servers[Executor], r)
         /\ listResults' = IF r.raised = "none"
                           THEN [listResults EXCEPT ![Executor] = Append(@, r.value)]
                           ELSE listResults
         /\ pc' = IF r.raised # "none" THEN "crashed" ELSE "input"
    /\ UNCHANGED <<app, declared, ops, idx, turns, llm_response, tool_name,
                   arguments, state, shown, callWire, turnList, turnCall,
                   workerVars>>

\* main lines 114-115 and 126: exit or quit breaks the loop, then cleanup
Flow_exit ==
    /\ app = "flow" /\ pc = "input"
    /\ servers' = [servers EXCEPT ![Executor] = MCPToolExecutor_cleanup(servers[Executor])]
    /\ last' = Called("cleanup", Executor, servers[Executor],
                      [raised |-> "none", forwarded |-> FALSE, trip |-> FALSE])
    /\ pc' = "exited"
    /\ UNCHANGED <<app, declared, listResults, ops, idx, turns, llm_response,
                   tool_name, arguments, state, shown, callWire, turnList,
                   turnCall, workerVars>>

\* main lines 117-123: a fresh FlowState enters the graph
Flow_input ==
    /\ app = "flow" /\ pc = "input" /\ turns < MaxTurns
    /\ turns' = turns + 1
    /\ state' = [NewFlowState EXCEPT !.input = "question"]
    /\ llm_response' = NoText /\ shown' = NoOutput
    /\ turnList' = ZeroTrips /\ turnCall' = ZeroTrips /\ callWire' = "none"
    /\ pc' = "node_input"
    /\ UNCHANGED <<app, servers, declared, last, listResults, ops, idx,
                   tool_name, arguments, workerVars>>

input_node(st) == st

Flow_node_input ==
    /\ app = "flow" /\ pc = "node_input"
    /\ state' = input_node(state)
    /\ pc' = "node_plan"
    /\ UNCHANGED <<app, servers, declared, last, listResults, ops, idx, turns,
                   llm_response, tool_name, arguments, shown, callWire,
                   turnList, turnCall, workerVars>>

\* plan_tool_call: llm.ainvoke answers with a text, or raises (line 42 is
\* outside the try), which escapes the graph and main
Flow_node_plan ==
    /\ app = "flow" /\ pc = "node_plan"
    /\ \/ \E text \in Texts :
            /\ llm_response' = text
            /\ state' = plan_tool_call(state, text)
            /\ pc' = "node_call"
       \/ /\ pc' = "crashed"
          /\ UNCHANGED <<llm_response, state>>
    /\ UNCHANGED <<app, servers, declared, last, listResults, ops, idx, turns,
                   tool_name, arguments, shown, callWire, turnList, turnCall,
                   workerVars>>

\* call_mcp_tool, then main prints result["output"]
Flow_node_call ==
    /\ app = "flow" /\ pc = "node_call"
    /\ \E wl \in Wire, wc \in Wire :
         LET l == MCPToolExecutor_list_tools(servers[Executor], declared[Executor], wl)
             c == MCPToolExecutor_execute_tool(l.st, wc)
             r == call_mcp_tool(state, l.value, c)
             new == r.st
             called == r.called
         IN
         /\ turnList' = [turnList EXCEPT ![Executor] = @ + (IF l.trip THEN 1 ELSE 0)]
         /\ IF l.raised # "none"
            THEN \* line 74 is outside the try: the error escapes the graph and main
                 /\ servers' = [servers EXCEPT ![Executor] = l.st]
                 /\ last' = Called("list_tools", Executor, servers[Executor], l)
                 /\ pc' = "crashed"
                 /\ UNCHANGED <<state, shown, turnCall, callWire, listResults>>
            ELSE /\ state' = new
                 /\ shown' = new.output
                 /\ pc' = "input"
                 /\ listResults' = [listResults EXCEPT ![Executor] = Append(@, l.value)]
                 /\ servers' = [servers EXCEPT ![Executor] = IF called THEN c.st ELSE l.st]
                 /\ last' = IF called
                            THEN Called("execute_tool", Executor, l.st, c)
                            ELSE Called("list_tools", Executor, servers[Executor], l)
                 /\ turnCall' = [turnCall EXCEPT ![Executor] =
                                    @ + (IF called /\ c.trip THEN 1 ELSE 0)]
                 /\ callWire' = IF called THEN wc ELSE "none"
    /\ UNCHANGED <<app, declared, ops, idx, turns, llm_response, tool_name,
                   arguments, workerVars>>

(***************************************************************************)
(* The workers: call_tool of mcp_server/server.py and of server.py         *)
(***************************************************************************)
Workers == {"mcp_server", "math_flow"}
WorkerNames == {"add", "subtract", "multiply", "divide", "evaluate_expression", "sqrt"}
Numbers == 0..MaxNum
NumberLists == UNION {[1..n -> Numbers] : n \in 0..MaxLen}
\* arguments: a list of numbers, an expression, or something that does not
\* validate (a missing key, a token that is no number)
ArgKinds == {"numbers", "expression", "invalid"}
Requests ==
    [worker : Workers, name : WorkerNames, kind : ArgKinds, numbers : NumberLists,
     evalOk : BOOLEAN]

RECURSIVE Sum(_)
Sum(nums) == IF nums = <<>> THEN 0 ELSE Head(nums) + Sum(Tail(nums))
RECURSIVE Product(_)
Product(nums) == IF nums = <<>> THEN 1 ELSE Head(nums) * Product(Tail(nums))
RECURSIVE SubtractAll(_, _)
SubtractAll(result, rest) ==
    IF rest = <<>> THEN result ELSE SubtractAll(result - Head(rest), Tail(rest))

\* "for n in nums[1:]: if n == 0: return ...; result /= n" with the result kept
\* as the fraction num/den; divisors are the numbers divided by, in order
RECURSIVE DivideLoop_unchecked(_, _, _)
DivideLoop_unchecked(rest, den, divisors) ==
    IF rest = <<>> THEN [zero |-> FALSE, raised |-> "none", den |-> den, divisors |-> divisors]
    ELSE IF Head(rest) = 0
    THEN [zero |-> FALSE, raised |-> "ZeroDivisionError", den |-> den,
          divisors |-> Append(divisors, 0)]
    ELSE DivideLoop_unchecked(Tail(rest), den * Head(rest), Append(divisors, Head(rest)))

RECURSIVE DivideLoop(_, _, _)
DivideLoop(rest, den, divisors) ==
    IF rest = <<>> THEN [zero |-> FALSE, raised |-> "none", den |-> den, divisors |-> divisors]
    ELSE IF Head(rest) = 0
    THEN [zero |-> TRUE, raised |-> "none", den |-> den, divisors |-> divisors]
    ELSE DivideLoop(Tail(rest), den * Head(rest), Append(divisors, Head(rest)))

Divide_unchecked(nums) == DivideLoop_unchecked(Tail(nums), 1, <<>>)
Divide(nums) == DivideLoop(Tail(nums), 1, <<>>)

TextContent(msg, num, den) == [type |-> "text", text |-> [msg |-> msg, num |-> num, den |-> den]]
Reply(msg, num, den, divisors) ==
    [raised |-> "none", content |-> <<TextContent(msg, num, den)>>, divisors |-> divisors]

\* mcp_server/server.py call_tool
CalcArith(name, nums) ==
    IF Len(nums) < 2 THEN Reply("AtLeastTwo", 0, 1, <<>>)
    ELSE CASE name = "add" -> Reply("Result", Sum(nums), 1, <<>>)
           [] name = "subtract" -> Reply("Result", SubtractAll(Head(nums), Tail(nums)), 1, <<>>)
           [] name = "multiply" -> Reply("Result", Product(nums), 1, <<>>)
           [] OTHER ->
                LET d == Divide(nums) IN
                IF d.zero THEN Reply("DivisionByZero", 0, 1, d.divisors)
                ELSE IF d.raised # "none" THEN Reply("Error", 0, 1, d.divisors)
                ELSE Reply("Result", Head(nums), d.den, d.divisors)

Calc_call_tool(req) ==
    IF req.name \in {"add", "subtract", "multiply", "divide"}
    THEN IF req.kind # "numbers"
         THEN Reply("Error", 0, 1, <<>>)      \* CalcInput(**arguments) raises
         ELSE CalcArith(req.name, req.numbers)
    ELSE IF req.name = "evaluate_expression"
    THEN IF req.kind # "expression" \/ ~req.evalOk
         THEN Reply("Error", 0, 1, <<>>)      \* validation or eval raises
         ELSE Reply("Expression", 0, 1, <<>>)
    ELSE Reply("UnknownTool", 0, 1, <<>>)

\* server.py divide_node
divide_node(nums) ==
    IF nums = <<>> THEN Reply("ErrorInNode", 0, 1, <<>>)   \* nums[0]: IndexError
    ELSE LET d == Divide(nums) IN
         IF d.zero THEN Reply("DivisionByZero", 0, 1, d.divisors)
         ELSE IF d.raised # "none" THEN Reply("ErrorInNode", 0, 1, d.divisors)
         ELSE Reply("Result", Head(nums), d.den, d.divisors)

\* server.py add_node, subtract_node, multiply_node
arith_node(name, nums) ==
    CASE name = "add" -> Reply("Result", Sum(nums), 1, <<>>)
      [] name = "subtract" ->
           IF nums = <<>> THEN Reply("ErrorInNode", 0, 1, <<>>)
           ELSE Reply("Result", SubtractAll(Head(nums), Tail(nums)), 1, <<>>)
      [] OTHER -> Reply("Result", Product(nums), 1, <<>>)

\* server.py call_tool: arguments["input"] goes through the one-node flow;
\* the nodes catch their own exceptions, call_tool catches a missing "input"
MathFlow_call_tool(req) ==
    IF req.name \in {"add", "subtract", "multiply", "divide", "evaluate_expression"}
    THEN IF req.kind = "invalid"
         THEN Reply("Error", 0, 1, <<>>)            \* arguments["input"]: KeyError
         ELSE IF req.name = "evaluate_expression"
         THEN IF req.evalOk THEN Reply("Expression", 0, 1, <<>>)
              ELSE Reply("ErrorInNode", 0, 1, <<>>)  \* eval raises
         ELSE IF req.kind = "expression"
         THEN Reply("ErrorInNode", 0, 1, <<>>)       \* float() raises
         ELSE IF req.name = "divide" THEN divide_node(req.numbers)
         ELSE arith_node(req.name, req.numbers)
    ELSE Reply("UnknownTool", 0, 1, <<>>)

call_tool(req) ==
    IF req.worker = "mcp_server" THEN Calc_call_tool(req) ELSE MathFlow_call_tool(req)

NoReply == [raised |-> "none", content |-> <<>>, divisors |-> <<>>]

Worker_call_tool ==
    /\ app = "worker" /\ pc = "request"
    /\ wres' = call_tool(wreq)
    /\ pc' = "replied"
    /\ UNCHANGED <<app, servers, declared, last, listResults, ops, idx, turns,
                   llm_response, tool_name, arguments, state, shown, callWire,
                   turnList, turnCall, wreq>>

(***************************************************************************)
(* Specification                                                           *)
(***************************************************************************)
NoRequest ==
    [worker |-> "mcp_server", name |-> "add", kind |-> "invalid", numbers |-> <<>>,
     evalOk |-> FALSE]

Init ==
    /\ app \in {"api", "chat", "flow", "worker"}
    /\ servers = [s \in Servers |-> NewServer]
    \* the chat's servers come from its configuration file; the flow's executor
    \* and the workers are the calculator
    /\ declared \in IF app \in {"worker", "flow"} THEN {[s \in Servers |-> CalcTools]}
                    ELSE [Servers -> ToolLists]
    /\ last = NoCall
    /\ listResults = [s \in Servers |-> <<>>]
    /\ ops = 0
    /\ pc = IF app = "worker" THEN "request"
            ELSE IF app = "api" THEN "api" ELSE "initialize"
    /\ idx = 1
    /\ turns = 0
    /\ llm_response = NoText
    /\ tool_name = ""
    /\ arguments = EmptyArgs
    /\ state = NewFlowState
    /\ shown = NoOutput
    /\ callWire = "none"
    /\ turnList = ZeroTrips
    /\ turnCall = ZeroTrips
    /\ wreq \in IF app = "worker" THEN Requests ELSE {NoRequest}
    /\ wres = NoReply

Next ==
    \/ \E s \in Servers : Api_initialize(s)
    \/ \E s \in Servers : Api_list_tools(s)
    \/ \E s \in Servers : Api_execute_tool(s)
    \/ \E s \in Servers : Api_cleanup(s)
    \/ Chat_initialize
    \/ Chat_list_all
    \/ Chat_exit
    \/ Chat_input
    \/ Chat_route
    \/ Flow_initialize
    \/ Flow_list_all
    \/ Flow_exit
    \/ Flow_input
    \/ Flow_node_input
    \/ Flow_node_plan
    \/ Flow_node_call
    \/ Worker_call_tool

Spec == Init /\ [][Next]_vars

(***************************************************************************)
(* Properties                                                              *)
(***************************************************************************)
KnownNames(s) == Range(declared[s])
NoTrips(t) == \A s \in Servers : t[s] = 0

\* the routing loop of ChatSession.start has finished for a parsed directive
ChatDispatchDone ==
    /\ app = "chat" /\ pc = "input" /\ turns > 0
    /\ StartsWithBrace(llm_response)
    /\ Chat_parse(llm_response).raised = "none"
ChatUnknownRequest ==
    ChatDispatchDone /\ \A s \in Servers : tool_name \notin KnownNames(s)

\* the graph has run call_mcp_tool and main has printed the result
FlowDispatchDone ==
    app = "flow" /\ pc = "input" /\ turns > 0 /\ llm_response # NoText
FlowUnknownRequest ==
    FlowDispatchDone /\ state.tool_name \notin KnownNames(Executor)

UsesMCPServer == app \in {"api", "chat"}
IsRequest(c) == c.op \in {"list_tools", "execute_tool"}

\* C2 (as claimed): when MCPServer.initialize has raised, the worker process
\* it spawned is no longer running.
C2_NoOrphanAfterFailedInitialize ==
    (UsesMCPServer /\ last.op = "initialize" /\ last.raised # "none")
        => servers[last.srv].proc # "running"

\* C3 (as claimed): when the application has ended, by exit or quit or by an
\* error that escaped, every worker session it acquired has been torn down:
\* no worker it spawned is still running.
C3_TeardownOnEveryExit ==
    pc \in {"exited", "crashed"} =>
        \A s \in Servers : servers[s].proc # "running"

\* C4: no list_tools or execute_tool of an MCPServer reaches the session, and
\* no round trip reaches the worker, unless an initialize of that MCPServer
\* completed its handshake; before that, and after a failed initialize, the
\* session field is unset and the call is rejected by the assertion.
C4_NoRequestBeforeHandshake ==
    UsesMCPServer =>
        /\ \A s \in Servers :
             ~servers[s].handshook =>
                /\ servers[s].session = "None"
                /\ app = "api" => turnList[s] = 0 /\ turnCall[s] = 0
        /\ (IsRequest(last) /\ ~servers[last.srv].handshook) =>
                /\ last.raised = "AssertionError"
                /\ ~last.forwarded /\ ~last.trip

C4_Witness ==
    /\ app = "api" /\ IsRequest(last) /\ last.raised = "AssertionError"
    /\ servers[last.srv].exit_stack = "open"
    /\ servers[last.srv].proc = "running"
    /\ \E s \in Servers : servers[s].handshook /\ turnList[s] > 0

\* C5 (as claimed): a list_tools or execute_tool made after cleanup has closed
\* the session is rejected, not forwarded to the closed session.
C5_RejectedAfterCleanup ==
    (UsesMCPServer /\ IsRequest(last) /\ last.at = "Closed") => ~last.forwarded

\* the text of the language model did not decode into a call request
DecodeFails(text) == plan_tool_call(NewFlowState, text).output.kind = "parse_failure"

\* C6 (as claimed): when the text of the language model fails to decode, the
\* output the graph returns, which main prints, holds the failure reason and
\* the raw text verbatim.
C6_RawTextShownOnParseFailure ==
    (FlowDispatchDone /\ DecodeFails(llm_response)) =>
        /\ shown.kind = "parse_failure"
        /\ shown.reason # "none"
        /\ shown.raw = llm_response

\* C7 (as claimed): an application-level failure reported by the worker ends
\* the turn with text for the operator, and a channel or protocol failure of
\* the call is not turned into text: it escapes dispatch as an error.
C7_ChannelFailurePropagates ==
    app \in {"chat", "flow"} =>
        /\ callWire = "app_error" =>
             pc = "input" /\ shown.kind \in {"tool_output", "call_failed"}
        /\ callWire = "fail" => pc = "crashed"

ZeroAfterFirst(nums) == Len(nums) >= 2 /\ \E i \in 2..Len(nums) : nums[i] = 0

\* C9: divide called with at least two numbers, one of them after the first a
\* zero, returns exactly one text block that reports the division by zero,
\* has not divided by a zero, and raises nothing.
C9_DivideByZeroIsText ==
    (app = "worker" /\ pc = "replied" /\ wreq.name = "divide"
       /\ wreq.kind = "numbers" /\ ZeroAfterFirst(wreq.numbers)) =>
        /\ wres.raised = "none"
        /\ Len(wres.content) = 1
        /\ wres.content[1].type = "text"
        /\ wres.content[1].text.msg = "DivisionByZero"
        /\ 0 \notin Range(wres.divisors)

C9_Witness ==
    /\ app = "worker" /\ pc = "replied" /\ wreq.name = "divide"
    /\ wreq.worker = "mcp_server" /\ wreq.kind = "numbers"
    /\ Len(wreq.numbers) = 3 /\ wreq.numbers[2] # 0 /\ wreq.numbers[3] = 0
    /\ wres.content[1].text.msg = "DivisionByZero"
    /\ wres.divisors = <<wreq.numbers[2]>>

\* the text decodes to an object
IsObject(text) == JsonLoads(text).raised = "none" /\ JsonLoads(text).value.kind = "object"
Lacks(text, key) == key \notin JsonLoads(text).value.keys
\* plan_tool_call has run on the text of this turn
FlowPlanned == app = "flow" /\ pc \in {"node_call", "input"} /\ llm_response # NoText
\* the chat loop has finished the turn for a text that begins with "{"
ChatTurnDone ==
    app = "chat" /\ pc = "input" /\ turns > 0 /\ StartsWithBrace(llm_response)

\* C10 (as claimed): a decoded object that lacks the tool-name field or the
\* arguments field is rejected as a parse failure by plan_tool_call and by the
\* ChatSession loop, and no tool call is issued for it (stated for the turns
\* of the chat in which no round trip failed).
C10_MissingFieldRejected ==
    /\ (FlowPlanned /\ IsObject(StripFence(llm_response))
          /\ (Lacks(StripFence(llm_response), "tool_name")
                \/ Lacks(StripFence(llm_response), "arguments"))) =>
            /\ pc = "node_call" => state.output.kind = "parse_failure"
            /\ NoTrips(turnCall)
    /\ (ChatTurnDone /\ IsObject(llm_response) /\ last.raised = "none"
          /\ (Lacks(llm_response, "tool") \/ Lacks(llm_response, "arguments"))) =>
            /\ shown.kind = "parse_error" /\ shown.reason = "KeyError"
            /\ NoTrips(turnCall)

\* C10 (amended): a decoded object that lacks the tool-name field (tool_name
\* in plan_tool_call, tool in the ChatSession loop) is rejected as a parse
\* failure at both call sites and no tool call is issued for it; one that
\* lacks only the arguments field is rejected by plan_tool_call, while the
\* ChatSession loop takes empty arguments for it and routes it.
C10_MissingToolNameRejected ==
    /\ (FlowPlanned /\ IsObject(StripFence(llm_response))
          /\ (Lacks(StripFence(llm_response), "tool_name")
                \/ Lacks(StripFence(llm_response), "arguments"))) =>
            /\ pc = "node_call" =>
                 state.output.kind = "parse_failure" /\ state.output.reason = "KeyError"
            /\ state.tool_name = ""
            /\ NoTrips(turnCall)
    /\ (ChatTurnDone /\ IsObject(llm_response) /\ Lacks(llm_response, "tool")) =>
            /\ shown.kind = "parse_error" /\ shown.reason = "KeyError"
            /\ NoTrips(turnCall)
    /\ (ChatTurnDone /\ IsObject(llm_response) /\ ~Lacks(llm_response, "tool")
          /\ Lacks(llm_response, "arguments")) =>
            /\ arguments = EmptyArgs
            /\ ~(shown.kind = "parse_error" /\ shown.reason = "KeyError")

C10_Witness ==
    /\ FlowPlanned /\ pc = "node_call"
    /\ IsObject(StripFence(llm_response))
    /\ ~Lacks(StripFence(llm_response), "tool_name")
    /\ Lacks(StripFence(llm_response), "arguments")
    /\ state.output.kind = "parse_failure"

\* the servers on which execute_tool was invoked in this turn
CalledServers == {s \in Servers : turnCall[s] > 0}
OffersName(s) == tool_name \in KnownNames(s)

====
